---- MODULE Spec2Model ----
(***************************************************************************)
(* PetLoves text formatter (src/src/utils/textFormatter.tsx).              *)
(*                                                                         *)
(* A string is a sequence of one-character strings.  Offsets into a string *)
(* are 0-based and ranges are half open, as in the TypeScript source.      *)
(*                                                                         *)
(*   Spec        formatText: the block scanner, one action per loop branch *)
(*   SpecInline  formatInlineText: find, sort, remove overlaps, build      *)
(*   SpecEmail   validateGmailEmail (src/unnamed/part_000)                  *)
(*   SpecRun     either formatter call, run to completion                  *)
(*   SpecChat    the send protocol of the chat widget                      *)
(*               (src/src/components/RoshanGPT.tsx)                        *)
(***************************************************************************)
EXTENDS Integers, Sequences, FiniteSets, TLC

VARIABLES
    \* formatText
    input,              \* the argument: [kind, chars]; kind "string", "null" or "undefined"
    pc,                 \* "start", "loop", "done" ("idle" under SpecInline)
    lines,              \* text.split('\n')
    lineIndex,          \* loop counter
    inCodeBlock,        \* scanner state: TRUE = InFence
    codeBlockContent,   \* lines accumulated since the opening fence
    formattedLines,     \* block nodes pushed so far
    \* formatInlineText
    text,               \* the argument
    ipc,                \* "find", "sort", "filter", "build", "done" ("idle" under Spec)
    patternIndex,       \* patterns.forEach: number of families already scanned
    lastIndex,          \* regex.lastIndex of the family being scanned
    allMatches,         \* pooled occurrences of the five families
    validMatches,       \* occurrences kept by overlap removal
    parts,              \* the returned spans
    \* validateGmailEmail
    email,              \* the argument
    epc,                \* "call", "done" ("idle" under the other specifications)
    validation,         \* the returned EmailValidationResult
    \* RoshanGPT
    isOpen,             \* useState(false): the chat window is shown
    messages,           \* useState([greeting]): [text, sender] (id and timestamp left out)
    inputMessage,       \* useState(''): the controlled input
    isLoading,          \* useState(false)
    sendPc,             \* handleSendMessage: "idle", "await" (api.post pending),
                        \* "append" (generateBotResponse has returned); "off" elsewhere
    userMessage,        \* userMessage.text, the message posted to the API
    apiResult,          \* how the API call ended: [kind, response]
    botResponse,        \* the value generateBotResponse returned
    sends               \* number of handleSendMessage calls so far

blockVars  == <<input, pc, lines, lineIndex, inCodeBlock, codeBlockContent, formattedLines>>
inlineVars == <<text, ipc, patternIndex, lastIndex, allMatches, validMatches, parts>>
emailVars  == <<email, epc, validation>>
chatVars   == <<isOpen, messages, inputMessage, isLoading, sendPc, userMessage, apiResult,
                botResponse, sends>>
vars       == <<input, pc, lines, lineIndex, inCodeBlock, codeBlockContent, formattedLines,
                text, ipc, patternIndex, lastIndex, allMatches, validMatches, parts,
                email, epc, validation,
                isOpen, messages, inputMessage, isLoading, sendPc, userMessage, apiResult,
                botResponse, sends>>

\* what a step of one function leaves alone
nonBlockVars  == <<inlineVars, emailVars, chatVars>>
nonInlineVars == <<blockVars, emailVars, chatVars>>
nonEmailVars  == <<blockVars, inlineVars, chatVars>>
nonChatVars   == <<blockVars, inlineVars, emailVars>>

(***************************************************************************)
(* Bounds of the model                                                     *)
(***************************************************************************)
MaxTokens == 4      \* an inline input is at most this many tokens of InlineTokens
MaxLines  == 3      \* a block input is at most this many lines of LinePool

(***************************************************************************)
(* Strings                                                                 *)
(***************************************************************************)
At(s, i)       == s[i + 1]
Slice(s, a, b) == SubSeq(s, a + 1, b)

\* ECMAScript LineTerminator and the characters \s matches / trim() strips,
\* restricted to the characters that occur in the model.
LineTerminators == {"\n", "\r"}
WhiteSpace      == {" ", "\t", "\f", "\r", "\n"}
Digits          == {"0", "1", "2", "3", "4", "5", "6", "7", "8", "9"}

\* The backtick (U+0060) and the bullet (U+2022) cannot be written inside a
\* string of this notation; each is named instead.
BT     == "BACKTICK"
BULLET == "BULLET"

\* the regular expression atom . (any character but a line terminator)
Dot(c) == c \notin LineTerminators

SetMin(S) == CHOOSE x \in S : \A y \in S : x <= y
SetMax(S) == CHOOSE x \in S : \A y \in S : x >= y

\* const x = v; F(x): v is evaluated once, before F is applied to its value
Const(v, F(_)) == CHOOSE r \in {F(x) : x \in {v}} : TRUE

\* s.indexOf(c, from), -1 when absent
IndexOf(s, c, from) ==
    LET hits == {j \in from..(Len(s) - 1) : At(s, j) = c}
    IN  IF hits = {} THEN -1 ELSE SetMin(hits)

(***************************************************************************)
(* formatInlineText: the five pattern families                             *)
(***************************************************************************)
patterns == <<"link", "boldTriple", "boldDouble", "italic", "code">>

Match(fam, start, end, g1, g2) ==
    [fam |-> fam, start |-> start, end |-> end, g1 |-> g1, g2 |-> g2]

\* /\[([^\]]+)\]\(([^)]+)\)/ anchored at offset s: <<match>> or <<>>
LinkMatchAt(s, i) ==
    LET j == IndexOf(s, "]", i + 1)
        k == IndexOf(s, ")", j + 2)
    IN  IF /\ At(s, i) = "["
           /\ j >= i + 2
           /\ j + 1 < Len(s)
           /\ At(s, j + 1) = "("
           /\ k >= j + 3
        THEN <<Match("link", i, k + 1, Slice(s, i + 1, j), Slice(s, j + 2, k))>>
        ELSE <<>>

\* n consecutive asterisks at offset i
Stars(s, i, n) == /\ i + n <= Len(s)
                  /\ \A d \in 0..(n - 1) : At(s, i + d) = "*"

\* /\*{n}(.*?)\*{n}/ anchored at offset i: the lazy group stops at the first closer
StarMatchAt(fam, n, s, i) ==
    LET closers == {j \in (i + n)..(Len(s) - n) :
                        /\ Stars(s, j, n)
                        /\ \A d \in (i + n)..(j - 1) : Dot(At(s, d))}
    IN  IF Stars(s, i, n) /\ closers # {}
        THEN LET j == SetMin(closers)
             IN  <<Match(fam, i, j + n, Slice(s, i + n, j), <<>>)>>
        ELSE <<>>

\* the inline code pattern (backtick, one or more non-backticks, backtick) anchored at offset i
CodeMatchAt(s, i) ==
    LET j == IndexOf(s, BT, i + 1)
    IN  IF At(s, i) = BT /\ j >= i + 2
        THEN <<Match("code", i, j + 1, Slice(s, i + 1, j), <<>>)>>
        ELSE <<>>

MatchAt(fam, s, i) ==
    CASE fam = "link"       -> LinkMatchAt(s, i)
      [] fam = "boldTriple" -> StarMatchAt(fam, 3, s, i)
      [] fam = "boldDouble" -> StarMatchAt(fam, 2, s, i)
      [] fam = "italic"     -> StarMatchAt(fam, 1, s, i)
      [] fam = "code"       -> CodeMatchAt(s, i)

\* the while ((match = regex.exec(text)) !== null) loop of one family:
\* exec finds the leftmost match at or after regex.lastIndex (from) and moves
\* regex.lastIndex to its end
RECURSIVE ExecAll(_, _, _)
ExecAll(fam, s, from) ==
    LET starts == {i \in from..(Len(s) - 1) : MatchAt(fam, s, i) # <<>>}
    IN  IF starts = {} THEN <<>>
        ELSE Const(MatchAt(fam, s, SetMin(starts))[1],
                   LAMBDA m : <<m>> \o ExecAll(fam, s, m.end))

\* patterns.forEach(...): the families are scanned in the order of patterns
RECURSIVE PoolFrom(_, _, _)
PoolFrom(order, s, p) ==
    IF p > Len(order) THEN <<>>
    ELSE ExecAll(order[p], s, 0) \o PoolFrom(order, s, p + 1)

\* mutant: the italic family is scanned before the bold-double family
FindAllMatchesItalicBeforeDouble(s) ==
    PoolFrom(<<"link", "boldTriple", "italic", "boldDouble", "code">>, s, 1)

\* mutant: the pattern list holds the code family twice
FindAllMatchesCodeTwice(s) == PoolFrom(patterns \o <<"code">>, s, 1)

\* mutant: the italic family is scanned before the bold families
FindAllMatchesItalicFirst(s) ==
    PoolFrom(<<"link", "italic", "boldTriple", "boldDouble", "code">>, s, 1)

FindAllMatches(s) == PoolFrom(patterns, s, 1)

\* mutant: an unstable sort, a match goes before the matches of equal start
InsertByStartBeforeEqual(sorted, m) ==
    LET n == Cardinality({i \in 1..Len(sorted) : sorted[i].start < m.start})
    IN  SubSeq(sorted, 1, n) \o <<m>> \o SubSeq(sorted, n + 1, Len(sorted))

\* allMatches.sort((a, b) => a.start - b.start): Array.prototype.sort is stable
InsertByStart(sorted, m) ==
    LET n == Cardinality({i \in 1..Len(sorted) : sorted[i].start <= m.start})
    IN  SubSeq(sorted, 1, n) \o <<m>> \o SubSeq(sorted, n + 1, Len(sorted))

RECURSIVE SortByStart(_)
SortByStart(ms) ==
    IF ms = <<>> THEN <<>>
    ELSE Const(SortByStart(SubSeq(ms, 1, Len(ms) - 1)),
               LAMBDA sorted : InsertByStart(sorted, ms[Len(ms)]))

\* mutant: a match is kept only when match.start > lastEnd
RECURSIVE KeepFromStrict(_, _, _)
KeepFromStrict(ms, i, lastEnd) ==
    IF i > Len(ms) THEN <<>>
    ELSE IF ms[i].start > lastEnd
         THEN <<ms[i]>> \o KeepFromStrict(ms, i + 1, ms[i].end)
         ELSE KeepFromStrict(ms, i + 1, lastEnd)

\* the overlap loop: keep a match when match.start >= lastEnd
RECURSIVE KeepFrom(_, _, _)
KeepFrom(ms, i, lastEnd) ==
    IF i > Len(ms) THEN <<>>
    ELSE IF ms[i].start >= lastEnd
         THEN <<ms[i]>> \o KeepFrom(ms, i + 1, ms[i].end)
         ELSE KeepFrom(ms, i + 1, lastEnd)

\* mutant: the overlap test is missing, every pooled match is kept
RemoveOverlappingKeepAll(ms) == ms

RemoveOverlapping(ms) == KeepFrom(ms, 1, 0)

\* A span: the element (tag), its child text, the href of a link, and the
\* half-open source range [from, to) of the input it was made from.
Span(tag, content, href, from, to) ==
    [tag |-> tag, content |-> content, href |-> href, from |-> from, to |-> to]

TextSpan(s, a, b) == Span("span", Slice(s, a, b), <<>>, a, b)

\* mutant: a match with an empty group is rendered as its literal text
RenderEmptyAsPlain(m) ==
    IF m.g1 = <<>> THEN Span("span", [i \in 1..(m.end - m.start) |-> "*"], <<>>, m.start, m.end)
    ELSE CASE m.fam = "link"       -> Span("a", m.g1, m.g2, m.start, m.end)
           [] m.fam = "boldTriple" -> Span("strong", m.g1, <<>>, m.start, m.end)
           [] m.fam = "boldDouble" -> Span("strong", m.g1, <<>>, m.start, m.end)
           [] m.fam = "italic"     -> Span("em", m.g1, <<>>, m.start, m.end)
           [] m.fam = "code"       -> Span("code", m.g1, <<>>, m.start, m.end)

\* pattern.render(match, key)
Render(m) ==
    CASE m.fam = "link"       -> Span("a", m.g1, m.g2, m.start, m.end)
      [] m.fam = "boldTriple" -> Span("strong", m.g1, <<>>, m.start, m.end)
      [] m.fam = "boldDouble" -> Span("strong", m.g1, <<>>, m.start, m.end)
      [] m.fam = "italic"     -> Span("em", m.g1, <<>>, m.start, m.end)
      [] m.fam = "code"       -> Span("code", m.g1, <<>>, m.start, m.end)

\* validMatches.forEach(...) followed by the remaining text
RECURSIVE PartsFrom(_, _, _, _)
PartsFrom(s, vms, i, currentIndex) ==
    IF i > Len(vms)
    THEN IF currentIndex < Len(s) /\ Slice(s, currentIndex, Len(s)) # <<>>
         THEN <<TextSpan(s, currentIndex, Len(s))>>
         ELSE <<>>
    ELSE LET m == vms[i]
             before == IF m.start > currentIndex /\ Slice(s, currentIndex, m.start) # <<>>
                       THEN <<TextSpan(s, currentIndex, m.start)>>
                       ELSE <<>>
         IN  before \o <<Render(m)>> \o PartsFrom(s, vms, i + 1, m.end)

\* mutant: the plain fallback is missing
BuildPartsNoFallback(s, vms) == PartsFrom(s, vms, 1, 0)

\* the parts, with the plain fallback when nothing was pushed
BuildParts(s, vms) ==
    LET built == PartsFrom(s, vms, 1, 0)
    IN  IF Len(built) = 0 THEN <<TextSpan(s, 0, Len(s))>> ELSE built

\* the whole function, as the block scanner calls it
formatInlineText(s) ==
    Const(s, LAMBDA str :
    Const(FindAllMatches(str), LAMBDA all :
    Const(SortByStart(all), LAMBDA sorted :
    Const(RemoveOverlapping(sorted), LAMBDA valid :
    BuildParts(str, valid)))))

(***************************************************************************)
(* Inputs of the inline resolver                                           *)
(***************************************************************************)
RECURSIVE Flatten(_)
Flatten(ss) == IF ss = <<>> THEN <<>> ELSE Head(ss) \o Flatten(Tail(ss))

InlineTokens == {<<"*">>, <<"*", "*">>, <<"a">>, <<BT>>, <<"[">>, <<"[", "a", "]">>, <<"(", "b", ")">>}

S_HelloWorld == <<"H", "e", "l", "l", "o", " ", "*", "*", "w", "o", "r", "l", "d">>
S_TripleX    == <<"*", "*", "*", "x", "*", "*", "*">>
S_BoldItalic == <<"*", "*", "a", "*", "*", " ", "*", "b", "*">>
S_Link       == <<"s", "e", "e", " ", "[", "a", "]", "(", "b", ")", " ", BT, "c", BT>>
S_CrBold     == <<"*", "*", "a", "\r", "b", "*", "*">>
S_OpenLink   == <<"[", "a", "]", "(", "b">>

S_Mixed      == <<"*", "*", "*", "x", "*", "*", "*", " ", BT, "c", BT, " ",
                 "[", "a", "]", "(", "b", ")">>

InlineSamples == {S_HelloWorld, S_TripleX, S_BoldItalic, S_Link, S_CrBold, S_OpenLink, S_Mixed}

InlineInputs ==
    {Flatten(ts) : ts \in UNION {[1..n -> InlineTokens] : n \in 0..MaxTokens}}
        \cup InlineSamples

(***************************************************************************)
(* SpecInline: one call of formatInlineText                                *)
(***************************************************************************)
BlockIdle ==
    /\ input = [kind |-> "string", chars |-> <<>>]
    /\ pc = "idle"
    /\ lines = <<>>
    /\ lineIndex = 0
    /\ inCodeBlock = FALSE
    /\ codeBlockContent = <<>>
    /\ formattedLines = <<>>

EmailIdle ==
    /\ email = <<>>
    /\ epc = "idle"
    /\ validation = [pending |-> TRUE]

ChatIdle ==
    /\ isOpen = FALSE
    /\ messages = <<>>
    /\ inputMessage = <<>>
    /\ isLoading = FALSE
    /\ sendPc = "off"
    /\ userMessage = <<>>
    /\ apiResult = [kind |-> "none", response |-> <<>>]
    /\ botResponse = <<>>
    /\ sends = 0

InitInline ==
    /\ text \in InlineInputs
    /\ ipc = "find"
    /\ patternIndex = 0
    /\ lastIndex = 0
    /\ allMatches = <<>>
    /\ validMatches = <<>>
    /\ parts = <<>>
    /\ BlockIdle
    /\ EmailIdle
    /\ ChatIdle

\* the whole patterns.forEach(...) in one step
FindMatches ==
    /\ ipc = "find"
    /\ patternIndex = 0 /\ lastIndex = 0
    /\ allMatches' = FindAllMatches(text)
    /\ patternIndex' = Len(patterns)
    /\ ipc' = "sort"
    /\ UNCHANGED <<text, lastIndex, validMatches, parts>>
    /\ UNCHANGED nonInlineVars

SortMatches ==
    /\ ipc = "sort"
    /\ allMatches' = SortByStart(allMatches)
    /\ ipc' = "filter"
    /\ UNCHANGED <<text, patternIndex, lastIndex, validMatches, parts>>
    /\ UNCHANGED nonInlineVars

RemoveOverlaps ==
    /\ ipc = "filter"
    /\ validMatches' = RemoveOverlapping(allMatches)
    /\ ipc' = "build"
    /\ UNCHANGED <<text, patternIndex, lastIndex, allMatches, parts>>
    /\ UNCHANGED nonInlineVars

BuildFormattedParts ==
    /\ ipc = "build"
    /\ parts' = BuildParts(text, validMatches)
    /\ ipc' = "done"
    /\ UNCHANGED <<text, patternIndex, lastIndex, allMatches, validMatches>>
    /\ UNCHANGED nonInlineVars

NextInline == FindMatches \/ SortMatches \/ RemoveOverlaps \/ BuildFormattedParts

SpecInline == InitInline /\ [][NextInline]_vars

(***************************************************************************)
(* formatText: string helpers and the line patterns                        *)
(***************************************************************************)
\* String.prototype.trim
trim(s) ==
    LET keep == {i \in 1..Len(s) : s[i] \notin WhiteSpace}
    IN  IF keep = {} THEN <<>> ELSE SubSeq(s, SetMin(keep), SetMax(keep))

\* String.prototype.startsWith
startsWith(s, p) == Len(s) >= Len(p) /\ SubSeq(s, 1, Len(p)) = p

\* text.split('\n')
RECURSIVE split(_)
split(s) ==
    LET i == IndexOf(s, "\n", 0)
    IN  IF i = -1 THEN <<s>>
        ELSE <<Slice(s, 0, i)>> \o Const(Slice(s, i + 1, Len(s)), LAMBDA rest : split(rest))

\* codeBlockContent.join('\n')
RECURSIVE join(_)
join(ls) ==
    IF ls = <<>> THEN <<>>
    ELSE IF Len(ls) = 1 THEN ls[1]
    ELSE ls[1] \o <<"\n">> \o join(Tail(ls))

\* the length of the longest run of characters of S starting at offset from
RunLen(s, from, S) ==
    LET stops == {j \in from..(Len(s) - 1) : At(s, j) \notin S}
    IN  IF stops = {} THEN Len(s) - from ELSE SetMin(stops) - from

\* the tail (.+)$ of a line pattern, from offset a: not empty, no line terminator
DotPlusToEnd(s, a) ==
    /\ a < Len(s)
    /\ \A d \in a..(Len(s) - 1) : Dot(At(s, d))

\* \s+(.+)$ from offset a: \s+ is greedy and gives back whitespace only until
\* (.+)$ can match; the result is the offset where group (.+) starts, or -1
SpacesThenRest(s, a) ==
    LET run  == RunLen(s, a, WhiteSpace)
        cuts == {w \in 1..run : DotPlusToEnd(s, a + w)}
    IN  IF cuts = {} THEN -1 ELSE a + SetMax(cuts)

\* line.match(/^(#{1,6})\s+(.+)$/): <<[g1, g2]>> or <<>>
headerMatch(line) ==
    LET hashes == RunLen(line, 0, {"#"})
        rest   == SpacesThenRest(line, hashes)
    IN  IF hashes >= 1 /\ hashes <= 6 /\ rest >= 0
        THEN <<[g1 |-> Slice(line, 0, hashes), g2 |-> Slice(line, rest, Len(line))]>>
        ELSE <<>>

\* mutant: the ordinal is renumbered from the line's value (leading zeros are lost)
numberedListMatchRenumbered(line) ==
    LET ws  == RunLen(line, 0, WhiteSpace)
        ds  == RunLen(line, ws, Digits)
        dot == ws + ds
        zs  == RunLen(line, ws, {"0"})
        from == IF zs = ds THEN dot - 1 ELSE ws + zs
    IN  IF /\ ds >= 1
           /\ dot + 1 < Len(line)
           /\ At(line, dot) = "."
           /\ At(line, dot + 1) = " "
           /\ DotPlusToEnd(line, dot + 2)
        THEN <<[g1 |-> Slice(line, from, dot), g2 |-> Slice(line, dot + 2, Len(line))]>>
        ELSE <<>>

\* line.match(/^\s*(\d+)\. (.+)$/)
numberedListMatch(line) ==
    LET ws  == RunLen(line, 0, WhiteSpace)
        ds  == RunLen(line, ws, Digits)
        dot == ws + ds
    IN  IF /\ ds >= 1
           /\ dot + 1 < Len(line)
           /\ At(line, dot) = "."
           /\ At(line, dot + 1) = " "
           /\ DotPlusToEnd(line, dot + 2)
        THEN <<[g1 |-> Slice(line, ws, dot), g2 |-> Slice(line, dot + 2, Len(line))]>>
        ELSE <<>>

\* mutant: the bullet class also admits the blockquote marker
bulletListMatchWithQuote(line) ==
    LET ws   == RunLen(line, 0, WhiteSpace)
        rest == SpacesThenRest(line, ws + 1)
    IN  IF ws < Len(line) /\ At(line, ws) \in {"-", "*", BULLET, ">"} /\ rest >= 0
        THEN <<[g1 |-> Slice(line, rest, Len(line)), g2 |-> <<>>]>>
        ELSE <<>>

\* line.match(/^\s*[-*•]\s+(.+)$/)
bulletListMatch(line) ==
    LET ws   == RunLen(line, 0, WhiteSpace)
        rest == SpacesThenRest(line, ws + 1)
    IN  IF ws < Len(line) /\ At(line, ws) \in {"-", "*", BULLET} /\ rest >= 0
        THEN <<[g1 |-> Slice(line, rest, Len(line)), g2 |-> <<>>]>>
        ELSE <<>>

\* line.trim().startsWith(three backticks)
IsFenceLine(line) == startsWith(trim(line), <<BT, BT, BT>>)

\* the if-chain of the loop body for a line outside a fence: first test that succeeds
Classify(line) ==
    IF trim(line) = <<>> THEN "empty"
    ELSE IF headerMatch(line) # <<>> THEN "header"
    ELSE IF startsWith(trim(line), <<">", " ">>) THEN "quote"
    ELSE IF numberedListMatch(line) # <<>> THEN "numbered"
    ELSE IF bulletListMatch(line) # <<>> THEN "bullet"
    ELSE "para"

\* A block node: the element pushed to formattedLines.  key is the line index
\* of its React key; children is the result of formatInlineText, content the
\* string it was applied to (for a code block: the joined raw lines).
Node(type, key, level, ordinal, content, children) ==
    [type |-> type, key |-> key, level |-> level, ordinal |-> ordinal,
     content |-> content, children |-> children]

\* mutant: a code block is keyed by its opening fence line
CodeBlockNodeKeyedByOpener(idx, acc) == Node("codeblock", idx - Len(acc) - 1, 0, <<>>, join(acc), <<>>)

CodeBlockNode(idx, acc) == Node("codeblock", idx, 0, <<>>, join(acc), <<>>)
EmptyNode(idx)          == Node("empty", idx, 0, <<>>, <<>>, <<>>)
HeaderNode(idx, line) ==
    LET m == headerMatch(line)[1]
    IN  Node("header", idx, Len(m.g1), <<>>, m.g2, formatInlineText(m.g2))
QuoteNode(idx, line) ==
    LET quoteText == Slice(trim(line), 2, Len(trim(line)))
    IN  Node("quote", idx, 0, <<>>, quoteText, formatInlineText(quoteText))
NumberedNode(idx, line) ==
    LET m == numberedListMatch(line)[1]
    IN  Node("numbered", idx, 0, m.g1, m.g2, formatInlineText(m.g2))
BulletNode(idx, line) ==
    LET m == bulletListMatch(line)[1]
    IN  Node("bullet", idx, 0, <<>>, m.g1, formatInlineText(m.g1))
ParaNode(idx, line) == Node("para", idx, 0, <<>>, line, formatInlineText(line))

\* mutant: the guard tests only for null and undefined
FalsyNullish(v) == v.kind # "string"

\* if (!text): the empty string, null and undefined are falsy
Falsy(v) == v.kind # "string" \/ Len(v.chars) = 0

(***************************************************************************)
(* Inputs of the block scanner                                             *)
(***************************************************************************)
MaxHashes == 7      \* header samples have up to this many leading hashes

L_Fence    == <<BT, BT, BT>>
L_FenceJs  == <<" ", BT, BT, BT, "j", "s">>
L_H2       == <<"#", "#", " ", "h">>
L_Quote    == <<">", " ", "q">>
L_Num      == <<"1", ".", " ", "a">>
L_Bullet   == <<"*", " ", BT, "c", BT>>
L_NotBold  == <<"*", "*", "n", "o", "t", " ", "b", "o", "l", "d", "*", "*">>
L_HeaderCr == <<"#", " ", "a", "\r">>
L_Plain    == <<"a">>
L_Title    == <<"#", " ", "T", "i", "t", "l", "e">>
L_Some     == <<"S", "o", "m", "e", " ", "*", "*", "b", "o", "l", "d", "*", "*", " ",
                "a", "n", "d", " ", "*", "i", "t", "a", "l", "i", "c", "*", " ",
                "t", "e", "x", "t", ".">>
L_Item1    == <<"-", " ", "i", "t", "e", "m", " ", "o", "n", "e">>
L_Item2    == <<"-", " ", "i", "t", "e", "m", " ", "t", "w", "o">>
L_Feed     == <<"0", "0", "7", ".", " ", "F", "e", "e", "d", " ", "t", "h", "e", " ", "c", "a", "t">>

LinePool == {<<>>, L_Fence, L_FenceJs, L_H2, L_Quote, L_Num, L_Bullet, L_NotBold,
             L_HeaderCr, L_Plain}

S_Scenario == join(<<L_Title, L_Some, <<>>, L_Item1, L_Item2>>)
S_FenceDoc == join(<<L_Plain, L_Fence, L_NotBold, <<>>, L_H2, L_Item1, L_Fence, L_Plain>>)
S_FourFences == join(<<L_FenceJs, L_Plain, L_Fence, L_Fence, L_Fence, L_Plain>>)

Hashes(k) == [i \in 1..k |-> "#"]

\* one-line inputs around the header pattern: k hashes, a separator, a body
HeaderSamples ==
    {Hashes(k) \o sep \o body :
        k \in 0..MaxHashes,
        sep \in {<<>>, <<" ">>, <<"\t", " ">>},
        body \in {<<>>, <<"a">>, <<"a", " ", "#">>, <<"a", "\r">>}}

\* one-line inputs around the ordered and unordered list patterns
ListSamples ==
    {indent \o marker \o sep \o body :
        indent \in {<<>>, <<" ">>},
        marker \in {<<"1", ".">>, <<"0", "0", "7", ".">>, <<"1", "2">>, <<"-">>, <<BULLET>>, <<">">>},
        sep \in {<<>>, <<" ">>, <<" ", " ">>},
        body \in {<<>>, <<"a">>, <<"a", "\r">>}}

\* one-line inputs that begin with one marker and go on with another
LineMarkers  == {<<"#">>, <<">">>, <<"1", ".">>, <<"-">>, <<"*">>, <<BT, BT, BT>>}
CrossSamples ==
    {indent \o m1 \o <<" ">> \o m2 \o <<" ", "a">> :
        indent \in {<<>>, <<" ">>}, m1 \in LineMarkers, m2 \in LineMarkers}

BlockTexts ==
    {join(ls) : ls \in UNION {[1..n -> LinePool] : n \in 1..MaxLines}}
        \cup {S_Scenario, S_FenceDoc, S_FourFences, L_Feed} \cup HeaderSamples \cup ListSamples \cup CrossSamples

BlockInputs ==
    {[kind |-> "string", chars |-> t] : t \in BlockTexts}
        \cup {[kind |-> "null", chars |-> <<>>], [kind |-> "undefined", chars |-> <<>>]}

(***************************************************************************)
(* Spec: one call of formatText                                            *)
(***************************************************************************)
InlineIdle ==
    /\ text = <<>>
    /\ ipc = "idle"
    /\ patternIndex = 0
    /\ lastIndex = 0
    /\ allMatches = <<>>
    /\ validMatches = <<>>
    /\ parts = <<>>

Init ==
    /\ input \in BlockInputs
    /\ pc = "start"
    /\ lines = <<>>
    /\ lineIndex = 0
    /\ inCodeBlock = FALSE
    /\ codeBlockContent = <<>>
    /\ formattedLines = <<>>
    /\ InlineIdle
    /\ EmailIdle
    /\ ChatIdle

\* if (!text) return [];
ReturnEmpty ==
    /\ pc = "start"
    /\ Falsy(input)
    /\ pc' = "done"
    /\ UNCHANGED <<input, lines, lineIndex, inCodeBlock, codeBlockContent, formattedLines>>
    /\ UNCHANGED nonBlockVars

\* const lines = text.split('\n'); ... let lineIndex = 0
SplitLines ==
    /\ pc = "start"
    /\ ~Falsy(input)
    /\ lines' = split(input.chars)
    /\ pc' = "loop"
    /\ UNCHANGED <<input, lineIndex, inCodeBlock, codeBlockContent, formattedLines>>
    /\ UNCHANGED nonBlockVars

InLoop   == pc = "loop" /\ lineIndex < Len(lines)
line     == lines[lineIndex + 1]
Continue == /\ lineIndex' = lineIndex + 1
            /\ UNCHANGED <<input, pc, lines>>
            /\ UNCHANGED nonBlockVars

\* a fence line outside a fence
StartCodeBlock ==
    /\ InLoop
    /\ IsFenceLine(line)
    /\ ~inCodeBlock
    /\ inCodeBlock' = TRUE
    /\ UNCHANGED <<codeBlockContent, formattedLines>>
    /\ Continue

\* mutant: the accumulator is not cleared when the fence closes
EndCodeBlockNoClear ==
    /\ InLoop
    /\ IsFenceLine(line)
    /\ inCodeBlock
    /\ formattedLines' = Append(formattedLines, CodeBlockNode(lineIndex, codeBlockContent))
    /\ UNCHANGED codeBlockContent
    /\ inCodeBlock' = FALSE
    /\ Continue

\* a fence line inside a fence
EndCodeBlock ==
    /\ InLoop
    /\ IsFenceLine(line)
    /\ inCodeBlock
    /\ formattedLines' = Append(formattedLines, CodeBlockNode(lineIndex, codeBlockContent))
    /\ codeBlockContent' = <<>>
    /\ inCodeBlock' = FALSE
    /\ Continue

\* if (inCodeBlock) { codeBlockContent.push(line); continue; }
CodeLine ==
    /\ InLoop
    /\ ~IsFenceLine(line)
    /\ inCodeBlock
    /\ codeBlockContent' = Append(codeBlockContent, line)
    /\ UNCHANGED <<inCodeBlock, formattedLines>>
    /\ Continue

\* mutant: the if-chain is also reached inside a fence
OutsideIgnoringFence == InLoop /\ ~IsFenceLine(line)

\* the loop body reaches the if-chain: the line is outside a fence and not a fence line
Outside == InLoop /\ ~IsFenceLine(line) /\ ~inCodeBlock

\* mutant: a blank line is skipped without a node
EmptyLineSkipped ==
    /\ InLoop /\ ~IsFenceLine(line) /\ ~inCodeBlock
    /\ Classify(line) = "empty"
    /\ UNCHANGED <<inCodeBlock, codeBlockContent, formattedLines>>
    /\ Continue

\* if (line.trim() === '')
EmptyLine ==
    /\ Outside
    /\ Classify(line) = "empty"
    /\ formattedLines' = Append(formattedLines, EmptyNode(lineIndex))
    /\ UNCHANGED <<inCodeBlock, codeBlockContent>>
    /\ Continue

\* if (headerMatch)
HeaderLine ==
    /\ Outside
    /\ Classify(line) = "header"
    /\ formattedLines' = Append(formattedLines, HeaderNode(lineIndex, line))
    /\ UNCHANGED <<inCodeBlock, codeBlockContent>>
    /\ Continue

\* if (line.trim().startsWith('> '))
QuoteLine ==
    /\ Outside
    /\ Classify(line) = "quote"
    /\ formattedLines' = Append(formattedLines, QuoteNode(lineIndex, line))
    /\ UNCHANGED <<inCodeBlock, codeBlockContent>>
    /\ Continue

\* if (numberedListMatch)
NumberedLine ==
    /\ Outside
    /\ Classify(line) = "numbered"
    /\ formattedLines' = Append(formattedLines, NumberedNode(lineIndex, line))
    /\ UNCHANGED <<inCodeBlock, codeBlockContent>>
    /\ Continue

\* if (bulletListMatch)
BulletLine ==
    /\ Outside
    /\ Classify(line) = "bullet"
    /\ formattedLines' = Append(formattedLines, BulletNode(lineIndex, line))
    /\ UNCHANGED <<inCodeBlock, codeBlockContent>>
    /\ Continue

\* regular paragraphs
ParagraphLine ==
    /\ Outside
    /\ Classify(line) = "para"
    /\ formattedLines' = Append(formattedLines, ParaNode(lineIndex, line))
    /\ UNCHANGED <<inCodeBlock, codeBlockContent>>
    /\ Continue

\* return formattedLines;
Return ==
    /\ pc = "loop"
    /\ lineIndex = Len(lines)
    /\ pc' = "done"
    /\ UNCHANGED <<input, lines, lineIndex, inCodeBlock, codeBlockContent, formattedLines>>
    /\ UNCHANGED nonBlockVars

Next ==
    \/ ReturnEmpty \/ SplitLines
    \/ StartCodeBlock \/ EndCodeBlock \/ CodeLine
    \/ EmptyLine \/ HeaderLine \/ QuoteLine \/ NumberedLine \/ BulletLine \/ ParagraphLine
    \/ Return

Spec == Init /\ [][Next]_vars

(***************************************************************************)
(* Either formatter call, run to completion.  The forEach / exec loop of   *)
(* formatInlineText is taken one regex.exec call at a time.  The code is   *)
(* synchronous: a call that can take a step takes it, hence the fairness.  *)
(***************************************************************************)
\* regex.exec(text) with regex.lastIndex = from: the leftmost match at or after from
exec(fam, s, from) ==
    LET starts == {i \in from..(Len(s) - 1) : MatchAt(fam, s, i) # <<>>}
    IN  IF starts = {} THEN <<>> ELSE MatchAt(fam, s, SetMin(starts))

InForEach == ipc = "find" /\ patternIndex < Len(patterns)
pattern   == patterns[patternIndex + 1]

\* mutant: exec leaves lastIndex where it was, as it does after an empty match
ExecMatchNoAdvance ==
    /\ InForEach
    /\ exec(pattern, text, lastIndex) # <<>>
    /\ allMatches' = Append(allMatches, exec(pattern, text, lastIndex)[1])
    /\ UNCHANGED <<text, ipc, patternIndex, lastIndex, validMatches, parts>>
    /\ UNCHANGED nonInlineVars

\* (match = regex.exec(text)) !== null: push it; exec has set lastIndex to its end
ExecMatch ==
    /\ InForEach
    /\ exec(pattern, text, lastIndex) # <<>>
    /\ allMatches' = Append(allMatches, exec(pattern, text, lastIndex)[1])
    /\ lastIndex' = exec(pattern, text, lastIndex)[1].end
    /\ UNCHANGED <<text, ipc, patternIndex, validMatches, parts>>
    /\ UNCHANGED nonInlineVars

\* regex.exec(text) === null: the while loop ends, forEach takes the next
\* pattern with a fresh RegExp (lastIndex 0)
ExecNull ==
    /\ InForEach
    /\ exec(pattern, text, lastIndex) = <<>>
    /\ patternIndex' = patternIndex + 1
    /\ lastIndex' = 0
    /\ UNCHANGED <<text, ipc, allMatches, validMatches, parts>>
    /\ UNCHANGED nonInlineVars

\* forEach has gone through all the patterns
EndForEach ==
    /\ ipc = "find"
    /\ patternIndex = Len(patterns)
    /\ ipc' = "sort"
    /\ UNCHANGED <<text, patternIndex, lastIndex, allMatches, validMatches, parts>>
    /\ UNCHANGED nonInlineVars

\* the texts whose resolver call is followed exec by exec: one token shorter
\* than those of SpecInline, and the samples
RunInlineInputs ==
    {Flatten(ts) : ts \in UNION {[1..n -> InlineTokens] : n \in 0..(MaxTokens - 1)}}
        \cup InlineSamples

InitRun == Init \/ (InitInline /\ text \in RunInlineInputs)

NextRun ==
    \/ Next
    \/ ExecMatch \/ ExecNull \/ EndForEach
    \/ SortMatches \/ RemoveOverlaps \/ BuildFormattedParts

SpecRun == InitRun /\ [][NextRun]_vars /\ WF_vars(NextRun)

(***************************************************************************)
(* validateGmailEmail (src/unnamed/part_000)                               *)
(***************************************************************************)
MaxLocal == 4       \* an email input has at most this many characters before its domain

LowerLetters == <<"a", "b", "c", "d", "e", "f", "g", "h", "i", "j", "k", "l", "m",
                  "n", "o", "p", "q", "r", "s", "t", "u", "v", "w", "x", "y", "z">>
UpperLetters == <<"A", "B", "C", "D", "E", "F", "G", "H", "I", "J", "K", "L", "M",
                  "N", "O", "P", "Q", "R", "S", "T", "U", "V", "W", "X", "Y", "Z">>
Letters == {LowerLetters[i] : i \in 1..26} \cup {UpperLetters[i] : i \in 1..26}

\* String.prototype.toLowerCase
toLowerCase(s) ==
    [i \in 1..Len(s) |->
        IF \E k \in 1..26 : UpperLetters[k] = s[i]
        THEN LowerLetters[CHOOSE k \in 1..26 : UpperLetters[k] = s[i]]
        ELSE s[i]]

\* the character class [a-zA-Z0-9._+-] of gmailRegex
LocalClass == Letters \cup Digits \cup {".", "_", "+", "-"}

GmailDomain == <<"@", "g", "m", "a", "i", "l", ".", "c", "o", "m">>

\* gmailRegex.test(s) for /^[a-zA-Z0-9._+-]+@gmail\.com$/
gmailRegexTest(s) ==
    LET n == Len(s) - Len(GmailDomain)
    IN  /\ n >= 1
        /\ \A i \in 1..n : s[i] \in LocalClass
        /\ SubSeq(s, n + 1, Len(s)) = GmailDomain

\* s.split('@')[0]
BeforeAt(s) ==
    LET i == IndexOf(s, "@", 0)
    IN  IF i = -1 THEN s ELSE Slice(s, 0, i)

\* s.includes('..')
HasDotDot(s) == \E i \in 1..(Len(s) - 1) : s[i] = "." /\ s[i + 1] = "."

Invalid(msg) == [isValid |-> FALSE, error |-> msg]

\* the whole function: the first failing test decides the result
validateGmailEmail(e) ==
    LET normalizedEmail == toLowerCase(trim(e))
        localPart       == BeforeAt(normalizedEmail)
    IN  IF Len(normalizedEmail) = 0
        THEN Invalid("Email is required")
        ELSE IF ~gmailRegexTest(normalizedEmail)
        THEN Invalid("Only Gmail accounts are accepted. Please use an email in the format: xyz@gmail.com")
        ELSE IF Len(localPart) = 0
        THEN Invalid("Invalid email format. Please use a valid Gmail address: xyz@gmail.com")
        ELSE IF localPart[1] = "." \/ localPart[Len(localPart)] = "."
        THEN Invalid("Gmail address cannot start or end with a dot")
        ELSE IF HasDotDot(localPart)
        THEN Invalid("Gmail address cannot contain consecutive dots")
        ELSE [isValid |-> TRUE]

\* inputs: optional padding, a local part, a domain, optional padding
LocalAlphabet == {"a", "Z", ".", "_", "-", "!"}
LocalParts ==
    UNION {[1..n -> LocalAlphabet] : n \in 0..MaxLocal}
        \cup {<<"a", "7", "+", "b">>, <<"x", "y", "z">>, <<"a", "@", "b">>}
EmailDomains ==
    {<<>>, GmailDomain,
     <<"@", "G", "m", "a", "i", "l", ".", "C", "O", "M">>,
     <<"@", "g", "m", "a", "i", "l", "x", "c", "o", "m">>,
     <<"@", "g", "m", "a", "i", "l", ".", "c", "o", "m", ".", "a", "u">>,
     <<"@", "y", "a", "h", "o", "o", ".", "c", "o", "m">>}
EmailInputs ==
    {pad \o l \o dom \o pad :
        pad \in {<<>>, <<" ">>}, l \in LocalParts, dom \in EmailDomains}

InitEmail ==
    /\ email \in EmailInputs
    /\ epc = "call"
    /\ validation = [pending |-> TRUE]
    /\ BlockIdle
    /\ InlineIdle
    /\ ChatIdle

ValidateGmailEmail ==
    /\ epc = "call"
    /\ validation' = validateGmailEmail(email)
    /\ epc' = "done"
    /\ UNCHANGED email
    /\ UNCHANGED nonEmailVars

NextEmail == ValidateGmailEmail

SpecEmail == InitEmail /\ [][NextEmail]_vars

(***************************************************************************)
(* RoshanGPT (src/src/components/RoshanGPT.tsx): the send protocol.        *)
(* An event handler runs to completion and React renders before the next   *)
(* event, so a handler reads the state of the latest render.  The id and   *)
(* the timestamp of a message are left out.                                *)
(***************************************************************************)
MaxSends == 3       \* handleSendMessage is called at most this many times

Message(msgText, sender) == [text |-> msgText, sender |-> sender]

\* the greeting of the initial state and the fixed text of the catch block,
\* each standing for the full sentence of the source
Greeting     == <<"H", "e", "l", "l", "o">>
FallbackText == <<"d", "i", "f", "f", "i", "c", "u", "l", "t", "i", "e", "s">>

\* what the user leaves in the input, and what the API answers
InputTexts    == {<<>>, <<" ">>, <<"h", "i">>, <<" ", "h", "i", " ">>, <<"a", " ", "b">>}
ResponseTexts == {<<"o", "k">>, <<"*", "o", "k", "*">>}

InitChat ==
    /\ isOpen = FALSE
    /\ messages = <<Message(Greeting, "bot")>>
    /\ inputMessage = <<>>
    /\ isLoading = FALSE
    /\ sendPc = "idle"
    /\ userMessage = <<>>
    /\ apiResult = [kind |-> "none", response |-> <<>>]
    /\ botResponse = <<>>
    /\ sends = 0
    /\ BlockIdle
    /\ InlineIdle
    /\ EmailIdle

\* no user event is dispatched between the return of generateBotResponse and
\* the continuation of handleSendMessage: both run as microtasks of one task
EventLoopFree == sendPc # "append"

\* onClick={() => setIsOpen(true)}
OpenChat ==
    /\ EventLoopFree
    /\ ~isOpen
    /\ isOpen' = TRUE
    /\ UNCHANGED <<messages, inputMessage, isLoading, sendPc, userMessage, apiResult,
                   botResponse, sends>>
    /\ UNCHANGED nonChatVars

closeChatbot ==
    /\ EventLoopFree
    /\ isOpen
    /\ isOpen' = FALSE
    /\ UNCHANGED <<messages, inputMessage, isLoading, sendPc, userMessage, apiResult,
                   botResponse, sends>>
    /\ UNCHANGED nonChatVars

\* onChange={(e) => setInputMessage(e.target.value)}; the input is disabled={isLoading}
ChangeInput ==
    /\ EventLoopFree
    /\ isOpen
    /\ ~isLoading
    /\ \E v \in InputTexts \ {inputMessage} : inputMessage' = v
    /\ UNCHANGED <<isOpen, messages, isLoading, sendPc, userMessage, apiResult,
                   botResponse, sends>>
    /\ UNCHANGED nonChatVars

\* handleSendMessage, if (!inputMessage.trim()) return;  reached by Enter only,
\* the button being disabled for a blank input
handleSendMessageBlank ==
    /\ EventLoopFree
    /\ isOpen
    /\ ~isLoading
    /\ sends < MaxSends
    /\ trim(inputMessage) = <<>>
    /\ sends' = sends + 1
    /\ UNCHANGED <<isOpen, messages, inputMessage, isLoading, sendPc, userMessage,
                   apiResult, botResponse>>
    /\ UNCHANGED nonChatVars

\* handleSendMessage up to the await (Enter in the input or a click on the send
\* button, both disabled while isLoading), with generateBotResponse up to its await
handleSendMessage ==
    /\ EventLoopFree
    /\ isOpen
    /\ ~isLoading
    /\ sends < MaxSends
    /\ trim(inputMessage) # <<>>
    /\ sends' = sends + 1
    /\ userMessage' = trim(inputMessage)
    /\ messages' = Append(messages, Message(trim(inputMessage), "user"))
    /\ inputMessage' = <<>>
    /\ isLoading' = TRUE
    /\ sendPc' = "await"
    /\ UNCHANGED <<isOpen, apiResult, botResponse>>
    /\ UNCHANGED nonChatVars

\* the call resolves with response.ok and a body: return data.response; finally
ApiOk ==
    /\ sendPc = "await"
    /\ \E r \in ResponseTexts :
          /\ apiResult' = [kind |-> "ok", response |-> r]
          /\ botResponse' = r
    /\ isLoading' = FALSE
    /\ sendPc' = "append"
    /\ UNCHANGED <<isOpen, messages, inputMessage, userMessage, sends>>
    /\ UNCHANGED nonChatVars

\* mutant: setIsLoading(false) is missing on the failure path
ApiNotOkStillLoading ==
    /\ sendPc = "await"
    /\ apiResult' = [kind |-> "notOk", response |-> <<>>]
    /\ botResponse' = FallbackText
    /\ sendPc' = "append"
    /\ UNCHANGED <<isOpen, messages, inputMessage, isLoading, userMessage, sends>>
    /\ UNCHANGED nonChatVars

\* the call resolves with !response.ok: throw, catch, return the fallback; finally
ApiNotOk ==
    /\ sendPc = "await"
    /\ apiResult' = [kind |-> "notOk", response |-> <<>>]
    /\ botResponse' = FallbackText
    /\ isLoading' = FALSE
    /\ sendPc' = "append"
    /\ UNCHANGED <<isOpen, messages, inputMessage, userMessage, sends>>
    /\ UNCHANGED nonChatVars

\* api.post or response.json() rejects: catch, return the fallback; finally
ApiThrows ==
    /\ sendPc = "await"
    /\ apiResult' = [kind |-> "thrown", response |-> <<>>]
    /\ botResponse' = FallbackText
    /\ isLoading' = FALSE
    /\ sendPc' = "append"
    /\ UNCHANGED <<isOpen, messages, inputMessage, userMessage, sends>>
    /\ UNCHANGED nonChatVars

\* the continuation of handleSendMessage: setMessages(prev => [...prev, botMessage])
AppendBotMessage ==
    /\ sendPc = "append"
    /\ messages' = Append(messages, Message(botResponse, "bot"))
    /\ sendPc' = "idle"
    /\ UNCHANGED <<isOpen, inputMessage, isLoading, userMessage, apiResult, botResponse, sends>>
    /\ UNCHANGED nonChatVars

NextChat ==
    \/ OpenChat \/ closeChatbot \/ ChangeInput
    \/ handleSendMessageBlank \/ handleSendMessage
    \/ ApiOk \/ ApiNotOk \/ ApiThrows
    \/ AppendBotMessage

\* the continuation of an async function whose awaited promise has settled
\* always runs; the network owes nothing
SpecChat == InitChat /\ [][NextChat]_vars /\ WF_vars(AppendBotMessage)

(***************************************************************************)
(* Properties of formatInlineText (SpecInline)                             *)
(***************************************************************************)
InlineDone == ipc = "done"
PlainOnly(s) == <<Span("span", s, <<>>, 0, Len(s))>>
Ranges(ms)  == [i \in 1..Len(ms) |-> <<ms[i].start, ms[i].end>>]
Formatted(ps) == SelectSeq(ps, LAMBDA p : p.tag # "span")

\* C1: the source ranges of the returned spans (kept occurrences and the gaps
\* before, between and after them) start at 0, end at the length of the
\* input, each begins where the previous one ends, none is empty, the
\* formatted ones are exactly the kept occurrences, a gap holds exactly the
\* characters of its range, and the ranges concatenated give back the input.
C1_Partition ==
    InlineDone =>
        /\ Len(parts) >= 1
        /\ parts[1].from = 0
        /\ parts[Len(parts)].to = Len(text)
        /\ \A i \in 1..(Len(parts) - 1) : parts[i].to = parts[i + 1].from
        /\ \A i \in 1..Len(parts) : parts[i].from < parts[i].to \/ text = <<>>
        /\ \A i \in 1..Len(parts) :
              parts[i].tag = "span" =>
                  parts[i].content = Slice(text, parts[i].from, parts[i].to)
        /\ [i \in 1..Len(Formatted(parts)) |->
              <<Formatted(parts)[i].from, Formatted(parts)[i].to>>] = Ranges(validMatches)
        /\ Flatten([i \in 1..Len(parts) |-> Slice(text, parts[i].from, parts[i].to)]) = text

\* a call that pooled overlapping occurrences, kept two, and emitted gaps
C1_Witness ==
    /\ InlineDone
    /\ Len(allMatches) > Len(validMatches)
    /\ Len(validMatches) >= 2
    /\ Len(parts) > Len(validMatches)

\* the input has one opening ** and nothing else that could be markup
UnterminatedBold(s) ==
    /\ \E i \in 1..(Len(s) - 1) : {j \in 1..Len(s) : s[j] = "*"} = {i, i + 1}
    /\ \A j \in 1..Len(s) : s[j] \notin {BT, "[", "]", "(", ")"}

\* C2: an opening ** with no closing ** (as in Hello **world) yields a single
\* plain-text span equal to the whole input, never a formatted span.
C2_FailOpen ==
    (InlineDone /\ UnterminatedBold(text)) => parts = PlainOnly(text)

\* C5: ***x*** yields exactly one Bold span, from the bold-triple family,
\* covering the whole token; **a** *b* yields Bold(a), a plain gap, Italic(b).
C5_Priority ==
    InlineDone =>
        /\ text = S_TripleX =>
              /\ validMatches = <<Match("boldTriple", 0, 7, <<"x">>, <<>>)>>
              /\ parts = <<Span("strong", <<"x">>, <<>>, 0, 7)>>
        /\ text = S_BoldItalic =>
              parts = <<Span("strong", <<"a">>, <<>>, 0, 5),
                        Span("span", <<" ">>, <<>>, 5, 6),
                        Span("em", <<"b">>, <<>>, 6, 9)>>

\* the resolver has returned for ***x***, where three families match at offset 0
C5_Witness ==
    /\ InlineDone
    /\ text = S_TripleX
    /\ Cardinality({i \in 1..Len(allMatches) : allMatches[i].start = 0}) = 3

\* C8: when no occurrence survives overlap resolution the resolver returns
\* exactly one plain-text span holding the entire input.
C8_PlainFallback ==
    (InlineDone /\ validMatches = <<>>) => parts = PlainOnly(text)

\* the resolver has returned for an input with markup characters but no occurrence
C8_Witness ==
    /\ InlineDone
    /\ validMatches = <<>>
    /\ \E i \in 1..Len(text) : text[i] \in {"*", BT, "["}

(***************************************************************************)
(* Properties of formatText (Spec)                                         *)
(***************************************************************************)
Done        == pc = "done"
SourceLines == split(input.chars)
FenceIdx    == {j \in 0..(Len(SourceLines) - 1) : IsFenceLine(SourceLines[j + 1])}
NodesAt(K)  == {i \in 1..Len(formattedLines) : formattedLines[i].key \in K}

\* C3: when the input ends inside an open fence, the lines accumulated since
\* the opening fence are emitted as a code block.
C3_FlushOpenFence ==
    (Done /\ inCodeBlock /\ codeBlockContent # <<>>) =>
        \E i \in 1..Len(formattedLines) :
            /\ formattedLines[i].type = "codeblock"
            /\ formattedLines[i].content = join(codeBlockContent)

\* the fence lines that close a fence, and the fence line that opened it
Closers   == {k \in FenceIdx : Cardinality({j \in FenceIdx : j <= k}) % 2 = 0}
Opener(k) == SetMax({j \in FenceIdx : j < k})

\* C4: for every closing fence line k with opening fence line o, the result has
\* exactly one node keyed in o..k: a code block keyed k whose content is the
\* lines o+1..k-1 verbatim, in order, joined by newline, with no inline spans.
\* No line of o+1..k-1 gets a node of its own.
C4_FenceIsolation ==
    (Done /\ input.kind = "string") =>
        \A k \in Closers :
            /\ Cardinality(NodesAt(Opener(k)..k)) = 1
            /\ \A i \in NodesAt(Opener(k)..k) :
                  /\ formattedLines[i].key = k
                  /\ formattedLines[i].type = "codeblock"
                  /\ formattedLines[i].content = join(SubSeq(SourceLines, Opener(k) + 2, k))
                  /\ formattedLines[i].children = <<>>

\* a closed fence holding markup, a blank line, a header line and a list line
C4_Witness ==
    /\ Done
    /\ \E i \in 1..Len(formattedLines) :
          /\ formattedLines[i].type = "codeblock"
          /\ formattedLines[i].content = join(<<L_NotBold, <<>>, L_H2, L_Item1>>)

NoFence == FenceIdx = {}

OneNodePerLine ==
    /\ Len(formattedLines) = Len(SourceLines)
    /\ \A i \in 1..Len(formattedLines) :
          /\ formattedLines[i].key = i - 1
          /\ formattedLines[i].type = "empty" <=> trim(SourceLines[i]) = <<>>

ScenarioResult ==
    <<Node("header", 0, 1, <<>>, <<"T", "i", "t", "l", "e">>,
           PlainOnly(<<"T", "i", "t", "l", "e">>)),
      Node("para", 1, 0, <<>>, L_Some,
           <<Span("span", <<"S", "o", "m", "e", " ">>, <<>>, 0, 5),
             Span("strong", <<"b", "o", "l", "d">>, <<>>, 5, 13),
             Span("span", <<" ", "a", "n", "d", " ">>, <<>>, 13, 18),
             Span("em", <<"i", "t", "a", "l", "i", "c">>, <<>>, 18, 26),
             Span("span", <<" ", "t", "e", "x", "t", ".">>, <<>>, 26, 32)>>),
      Node("empty", 2, 0, <<>>, <<>>, <<>>),
      Node("bullet", 3, 0, <<>>, <<"i", "t", "e", "m", " ", "o", "n", "e">>,
           PlainOnly(<<"i", "t", "e", "m", " ", "o", "n", "e">>)),
      Node("bullet", 4, 0, <<>>, <<"i", "t", "e", "m", " ", "t", "w", "o">>,
           PlainOnly(<<"i", "t", "e", "m", " ", "t", "w", "o">>))>>

\* C6 as stated: for any input string without a fence line the result has
\* exactly one node per line of text.split('\n'), in line order, a Blank node
\* exactly for the blank lines; the 5-line scenario gives the listed nodes.
C6_AsStated ==
    (Done /\ input.kind = "string" /\ NoFence) =>
        /\ OneNodePerLine
        /\ input.chars = S_Scenario => formattedLines = ScenarioResult

\* C6 amended: the same for any non-empty input string without a fence line.
C6_OneNodePerLine ==
    (Done /\ input.kind = "string" /\ input.chars # <<>> /\ NoFence) =>
        /\ OneNodePerLine
        /\ input.chars = S_Scenario => formattedLines = ScenarioResult

\* formatText has returned for the 5-line scenario
C6_Witness ==
    /\ Done
    /\ input.chars = S_Scenario
    /\ Len(formattedLines) = 5

\* C7: the ordinal of an ordered-list node is the digit string written at the
\* start of its line (after optional indentation), leading zeros kept, and its
\* text is what follows the dot and the space; 007. Feed the cat gives "007".
C7_OrdinalFidelity ==
    /\ \A i \in 1..Len(formattedLines) :
          formattedLines[i].type = "numbered" =>
              LET ln == SourceLines[formattedLines[i].key + 1]
                  ws == RunLen(ln, 0, WhiteSpace)
                  ds == RunLen(ln, ws, Digits)
              IN  /\ ds >= 1
                  /\ formattedLines[i].ordinal = Slice(ln, ws, ws + ds)
                  /\ formattedLines[i].content = Slice(ln, ws + ds + 2, Len(ln))
    /\ (Done /\ input.kind = "string" /\ input.chars = L_Feed) =>
          /\ Len(formattedLines) = 1
          /\ formattedLines[1].type = "numbered"
          /\ formattedLines[1].ordinal = <<"0", "0", "7">>
          /\ formattedLines[1].content = <<"F", "e", "e", "d", " ", "t", "h", "e", " ", "c", "a", "t">>

\* formatText has returned an ordered-list node whose ordinal has a leading zero
C7_Witness ==
    /\ Done
    /\ \E i \in 1..Len(formattedLines) :
          /\ formattedLines[i].type = "numbered"
          /\ formattedLines[i].ordinal = <<"0", "0", "7">>

\* C9: for the empty string, null and undefined the call returns an empty
\* sequence: it never enters the line loop and pushes no node.
C9_EmptyInput ==
    (input.kind \in {"null", "undefined"} \/ input.chars = <<>>) =>
        /\ pc \in {"start", "done"}
        /\ formattedLines = <<>>

\* formatText has returned for null
C9_Witness ==
    /\ Done
    /\ input.kind = "null"
    /\ formattedLines = <<>>

\* C10: outside a fence, a line of k hashes, then whitespace, then non-empty
\* content is a Header of level k when 1 <= k <= 6, and a Paragraph holding
\* the entire line when k >= 7.
C10_HeaderBoundary ==
    (Done /\ input.kind = "string" /\ input.chars # <<>> /\ NoFence) =>
        \A i \in 1..Len(SourceLines) :
            LET ln == SourceLines[i]
                k  == RunLen(ln, 0, {"#"})
                w  == RunLen(ln, k, WhiteSpace)
            IN  (k >= 1 /\ w >= 1 /\ k + w < Len(ln)) =>
                    /\ k <= 6 => /\ formattedLines[i].type = "header"
                                 /\ formattedLines[i].level = k
                    /\ k >= 7 => /\ formattedLines[i].type = "para"
                                 /\ formattedLines[i].content = ln

(***************************************************************************)
(* Properties of validateGmailEmail (SpecEmail)                            *)
(***************************************************************************)
\* the local part the claim allows: letters, numbers, dots, plus signs, underscores
ClaimedLocal(l) ==
    /\ Len(l) >= 1
    /\ \A i \in 1..Len(l) : l[i] \in Letters \cup Digits \cup {".", "+", "_"}
    /\ l[1] # "."
    /\ l[Len(l)] # "."
    /\ ~HasDotDot(l)

\* C11: isValid is true exactly when the trimmed, lower-cased email is a local
\* part of letters, numbers, dots, plus signs and underscores, not starting or
\* ending with a dot and without two consecutive dots, followed by @gmail.com;
\* every other input gives isValid = false with an error message.
C11_GmailOnly ==
    epc = "done" =>
        LET e == toLowerCase(trim(email))
            n == Len(e) - Len(GmailDomain)
            claimed == /\ n >= 1
                       /\ SubSeq(e, n + 1, Len(e)) = GmailDomain
                       /\ ClaimedLocal(SubSeq(e, 1, n))
        IN  /\ validation.isValid <=> claimed
            /\ ~validation.isValid => "error" \in DOMAIN validation

(***************************************************************************)
(* Further properties of formatText (Spec)                                 *)
(***************************************************************************)
\* the fence lines among the lines visited so far, and the code blocks pushed so far
FencesSeen == {j \in 0..(lineIndex - 1) : IsFenceLine(lines[j + 1])}
CodeBlocks == {i \in 1..Len(formattedLines) : formattedLines[i].type = "codeblock"}

C12_State ==
    /\ pc = "start" => (~inCodeBlock /\ codeBlockContent = <<>>)
    /\ pc \in {"loop", "done"} =>
          /\ inCodeBlock <=> Cardinality(FencesSeen) % 2 = 1
          /\ Cardinality(CodeBlocks) = Cardinality(FencesSeen) \div 2
          /\ ~inCodeBlock => codeBlockContent = <<>>
          /\ \A i \in 1..Len(formattedLines) :
                formattedLines[i].key \in FencesSeen => formattedLines[i].type = "codeblock"

C12_Step ==
    (InLoop /\ IsFenceLine(line)) =>
        /\ inCodeBlock' = ~inCodeBlock
        /\ ~inCodeBlock => UNCHANGED <<formattedLines, codeBlockContent>>
        /\ inCodeBlock =>
              /\ Len(formattedLines') = Len(formattedLines) + 1
              /\ SubSeq(formattedLines', 1, Len(formattedLines)) = formattedLines
              /\ formattedLines'[Len(formattedLines')].type = "codeblock"
              /\ codeBlockContent' = <<>>

\* C12: the scanner starts in Normal; every fence line toggles the state and
\* gets no node for its own text; opening emits nothing, closing emits exactly
\* one code block and clears the accumulator.  After any prefix of lines the
\* number of code blocks is floor(fence lines seen / 2), the state is InFence
\* exactly when that number of fence lines is odd, and the accumulator is empty
\* whenever the state is Normal.
C12_FenceMachine == []C12_State /\ [][C12_Step]_vars

\* two fences were opened and closed
C12_Witness ==
    /\ pc = "done"
    /\ ~inCodeBlock
    /\ Cardinality(FencesSeen) = 4
    /\ Cardinality(CodeBlocks) = 2

\* the tests of the loop body that succeed on a line, each taken on its own
Tests(ln) ==
    {t \in {"fence", "empty", "header", "quote", "numbered", "bullet"} :
        CASE t = "fence"    -> IsFenceLine(ln)
          [] t = "empty"    -> trim(ln) = <<>>
          [] t = "header"   -> headerMatch(ln) # <<>>
          [] t = "quote"    -> startsWith(trim(ln), <<">", " ">>)
          [] t = "numbered" -> numberedListMatch(ln) # <<>>
          [] t = "bullet"   -> bulletListMatch(ln) # <<>>}

\* C17: on a line processed in the Normal state at most one of the tests
\* fence, blank, header, blockquote, ordered item, unordered item succeeds; the
\* node of a line is of the one variant whose test succeeds, and a Paragraph
\* holding the entire line when none does.
C17_Exclusive ==
    /\ (InLoop /\ ~inCodeBlock) => Cardinality(Tests(line)) <= 1
    /\ pc \in {"loop", "done"} =>
          \A i \in 1..Len(formattedLines) :
              LET n  == formattedLines[i]
                  ln == lines[n.key + 1]
              IN  n.type # "codeblock" =>
                      \/ Tests(ln) = {n.type}
                      \/ (Tests(ln) = {} /\ n.type = "para" /\ n.content = ln)

\* one result holds a blockquote, an ordered item and an unordered item
C17_Witness ==
    /\ pc = "done"
    /\ \A ty \in {"quote", "numbered", "bullet"} :
          \E i \in 1..Len(formattedLines) : formattedLines[i].type = ty

(***************************************************************************)
(* Further properties of formatInlineText (SpecInline)                     *)
(***************************************************************************)
\* overlap removal has run: allMatches is sorted and validMatches is set
Resolved == ipc \in {"build", "done"}

\* the i-th pooled occurrence was kept; the end of the last one kept before it
Kept(i) == \E k \in 1..Len(validMatches) : validMatches[k] = allMatches[i]
LastKeptEnd(i) ==
    LET before == {j \in 1..(i - 1) : Kept(j)}
    IN  IF before = {} THEN 0 ELSE allMatches[SetMax(before)].end

\* C13: in ascending start order an occurrence is kept exactly when its start
\* is not less than the end of the last kept occurrence; the kept occurrences
\* are pairwise disjoint and strictly ordered; every discarded occurrence
\* starts inside a kept occurrence that starts at or before it; the formatted
\* spans are exactly the kept occurrences with their full ranges, so a
\* discarded occurrence yields no span, not even a trimmed one.
C13_LeftmostGreedy ==
    Resolved =>
        /\ \A i \in 1..(Len(allMatches) - 1) : allMatches[i].start <= allMatches[i + 1].start
        /\ \A k \in 1..Len(validMatches) : \E i \in 1..Len(allMatches) : allMatches[i] = validMatches[k]
        /\ \A i \in 1..Len(allMatches) : Kept(i) <=> allMatches[i].start >= LastKeptEnd(i)
        /\ \A k \in 1..Len(validMatches) : validMatches[k].start < validMatches[k].end
        /\ \A k \in 1..(Len(validMatches) - 1) : validMatches[k].end <= validMatches[k + 1].start
        /\ \A i \in 1..Len(allMatches) :
              ~Kept(i) => \E k \in 1..Len(validMatches) :
                              /\ validMatches[k].start <= allMatches[i].start
                              /\ allMatches[i].start < validMatches[k].end
        /\ ipc = "done" =>
              [i \in 1..Len(Formatted(parts)) |->
                  <<Formatted(parts)[i].from, Formatted(parts)[i].to>>] = Ranges(validMatches)

\* an occurrence was discarded although part of it lies beyond the kept one it overlaps
C13_Witness ==
    /\ ipc = "done"
    /\ \E i \in 1..Len(allMatches) :
          /\ ~Kept(i)
          /\ \E k \in 1..Len(validMatches) :
                /\ validMatches[k].start < allMatches[i].start
                /\ allMatches[i].start < validMatches[k].end
                /\ validMatches[k].end < allMatches[i].end

\* the pool has been filled
Pooled == ipc \in {"sort", "filter", "build", "done"}
StarFamilies == {"boldTriple", "boldDouble", "italic"}
Ties == {p \in (1..Len(allMatches)) \X (1..Len(allMatches)) :
            p[1] < p[2] /\ allMatches[p[1]].start = allMatches[p[2]].start}

\* C14 as stated: no two pooled occurrences have the same start offset.
C14_NoTies == Pooled => Ties = {}

\* C14 amended: two pooled occurrences with the same start offset belong to
\* two different families among bold-triple, bold-double and italic; a link or
\* code occurrence shares its start offset with no other occurrence, and no
\* family has two occurrences at one offset.
C14_TiesOnlyAmongStars ==
    Pooled =>
        \A p \in Ties :
            /\ allMatches[p[1]].fam \in StarFamilies
            /\ allMatches[p[2]].fam \in StarFamilies
            /\ allMatches[p[1]].fam # allMatches[p[2]].fam

\* three occurrences were pooled at one offset, next to a link and a code occurrence
C14_Witness ==
    /\ Pooled
    /\ \E p \in Ties, q \in Ties : p[2] = q[1]
    /\ \E i \in 1..Len(allMatches) : allMatches[i].fam \in {"link", "code"}

\* the position of a family in the pattern list
FamIndex(f) == CHOOSE k \in 1..Len(patterns) : patterns[k] = f
Sorted == ipc \in {"filter", "build", "done"}

\* C15: occurrences with the same start offset stay, after sorting, in the
\* order their families were scanned (link, bold-triple, bold-double, italic,
\* code); an occurrence kept at an offset is the one of the earliest family
\* pooled at that offset, and the others at that offset are discarded.
C15_TieBreak ==
    /\ Sorted =>
          \A p \in Ties : FamIndex(allMatches[p[1]].fam) < FamIndex(allMatches[p[2]].fam)
    /\ Resolved =>
          \A k \in 1..Len(validMatches) : \A i \in 1..Len(allMatches) :
              (allMatches[i].start = validMatches[k].start /\ allMatches[i] # validMatches[k]) =>
                  /\ FamIndex(validMatches[k].fam) < FamIndex(allMatches[i].fam)
                  /\ ~Kept(i)

\* a bold-double occurrence was kept at an offset where an italic one was pooled too
C15_Witness ==
    /\ ipc = "done"
    /\ \E k \in 1..Len(validMatches) : \E i \in 1..Len(allMatches) :
          /\ validMatches[k].fam = "boldDouble"
          /\ allMatches[i].fam = "italic"
          /\ allMatches[i].start = validMatches[k].start

BoldFamilies  == {"boldTriple", "boldDouble"}
Overlap(a, b) == a.start < b.end /\ b.start < a.end

\* the pooled bold occurrences and the kept italic occurrences that overlap one
BoldItalicClashes ==
    {p \in (1..Len(allMatches)) \X (1..Len(validMatches)) :
        /\ allMatches[p[1]].fam \in BoldFamilies
        /\ validMatches[p[2]].fam = "italic"
        /\ Overlap(allMatches[p[1]], validMatches[p[2]])}

\* C16 as stated: no italic occurrence overlapping a bold-triple or bold-double
\* occurrence is kept.
C16_BoldNeverFragmented == Resolved => BoldItalicClashes = {}

\* C16 amended: an italic occurrence that starts at the same offset as a bold
\* occurrence is never kept; an italic occurrence overlapping a bold occurrence
\* is kept only where that bold occurrence was discarded for a kept occurrence
\* that starts strictly before it.
C16_BoldWinsTies ==
    Resolved =>
        \A p \in BoldItalicClashes :
            /\ validMatches[p[2]].start # allMatches[p[1]].start
            /\ ~Kept(p[1])
            /\ \E q \in 1..Len(validMatches) :
                  /\ validMatches[q].start < allMatches[p[1]].start
                  /\ allMatches[p[1]].start < validMatches[q].end

\* an italic occurrence starting before a bold occurrence displaced it, and a
\* second italic occurrence was kept inside the bold occurrence's range
C16_Witness ==
    /\ ipc = "done"
    /\ \E p \in BoldItalicClashes : \E q \in 1..Len(validMatches) :
          /\ validMatches[q].fam = "italic"
          /\ validMatches[q].start < allMatches[p[1]].start
          /\ allMatches[p[1]].start < validMatches[q].end
          /\ validMatches[p[2]].start > allMatches[p[1]].start

\* the element a family is rendered as
TagOf(fam) ==
    CASE fam = "link" -> "a"
      [] fam \in BoldFamilies -> "strong"
      [] fam = "italic" -> "em"
      [] fam = "code" -> "code"

S_FourStars == <<"*", "*", "*", "*">>

\* C18: a kept occurrence whose captured inner text is empty is still emitted
\* as a formatted span of its family, with empty content, at its position;
\* **** gives one Bold span with empty content.
C18_EmptyContentKept ==
    InlineDone =>
        /\ \A k \in 1..Len(validMatches) :
              validMatches[k].g1 = <<>> =>
                  \E i \in 1..Len(parts) :
                      parts[i] = Span(TagOf(validMatches[k].fam), <<>>, <<>>,
                                      validMatches[k].start, validMatches[k].end)
        /\ text = S_FourStars =>
              /\ validMatches = <<Match("boldDouble", 0, 4, <<>>, <<>>)>>
              /\ parts = <<Span("strong", <<>>, <<>>, 0, 4)>>

\* the resolver has returned for ****
C18_Witness ==
    /\ InlineDone
    /\ text = S_FourStars
    /\ Len(parts) = 1

\* the React key of a node: its kind and the line index it was pushed at
KeyOf(n) == <<n.type, n.key>>

\* C19: every node of the result is keyed by the index of a line already
\* visited, a code block by the index of its closing fence line and any other
\* node by the index of a line that is no fence; the line indices are strictly
\* increasing in output order, so each index keys at most one node and the
\* keys are pairwise distinct.
C19_BlockIdentity ==
    pc \in {"loop", "done"} =>
        /\ \A i \in 1..Len(formattedLines) :
              LET n == formattedLines[i]
              IN  /\ n.key \in 0..(lineIndex - 1)
                  /\ IF n.type = "codeblock"
                     THEN /\ IsFenceLine(lines[n.key + 1])
                          /\ Cardinality({j \in FencesSeen : j <= n.key}) % 2 = 0
                     ELSE ~IsFenceLine(lines[n.key + 1])
        /\ \A i, j \in 1..Len(formattedLines) :
              i < j => /\ formattedLines[i].key < formattedLines[j].key
                       /\ KeyOf(formattedLines[i]) # KeyOf(formattedLines[j])

\* a finished call that returned a code block followed by another node
C19_Witness ==
    /\ Done
    /\ \E i, j \in 1..Len(formattedLines) :
          /\ i < j
          /\ formattedLines[i].type = "codeblock"
          /\ formattedLines[i].key > 0

\* the occurrences of one family pooled so far
OfFamily(fam) == SelectSeq(allMatches, LAMBDA m : m.fam = fam)

\* C20 (state part): no pooled occurrence is empty; the occurrences of one
\* family lie one after the other in the text, so a family has at most
\* length(text) of them; lastIndex stays within the text; once the scan is
\* over the pool is the one the five complete scans give.
C20_ExecState ==
    /\ \A k \in 1..Len(allMatches) :
          /\ allMatches[k].end - allMatches[k].start >= 1
          /\ 0 <= allMatches[k].start /\ allMatches[k].end <= Len(text)
    /\ \A p \in 1..Len(patterns) :
          LET ms == OfFamily(patterns[p])
          IN  /\ Len(ms) <= Len(text)
              /\ \A k \in 1..(Len(ms) - 1) : ms[k].end <= ms[k + 1].start
    /\ lastIndex \in 0..Len(text)
    /\ patternIndex \in 0..Len(patterns)
    /\ ipc \in {"sort", "filter", "build", "done"} => patternIndex = Len(patterns)
    /\ ipc = "sort" => allMatches = PoolFrom(patterns, text, 1)

\* C20 (step part): a loop iteration of formatText moves to the next line and
\* the loop is left only past the last line; an exec call that finds a match
\* moves lastIndex forward and a failing one moves on to the next family.
C20_Step ==
    /\ (pc = "loop" /\ pc' = "loop") =>
          /\ lineIndex < Len(lines)
          /\ lineIndex' = lineIndex + 1
    /\ (pc = "loop" /\ pc' = "done") => lineIndex = Len(lines)
    /\ (ipc = "find" /\ ipc' = "find") =>
          \/ /\ patternIndex' = patternIndex
             /\ lastIndex' > lastIndex
             /\ Len(allMatches') = Len(allMatches) + 1
          \/ /\ patternIndex' = patternIndex + 1
             /\ allMatches' = allMatches

\* C20: every call of formatText and of formatInlineText finishes; formatText
\* visits each line once, in order, and each exec loop of formatInlineText
\* strictly advances through the text because no match is empty.
C20_Termination ==
    /\ <>(pc = "done" \/ ipc = "done")
    /\ []C20_ExecState
    /\ [][C20_Step]_vars

\* a finished formatInlineText call in which one family matched twice
C20_Witness ==
    /\ ipc = "done"
    /\ \E p \in 1..Len(patterns) : Len(OfFamily(patterns[p])) >= 2
    /\ Len(parts) >= 2

\* the messages alternate after the greeting: user at even places, bot at odd ones
Alternating ==
    \A i \in 1..Len(messages) :
        messages[i].sender = (IF i % 2 = 0 THEN "user" ELSE "bot")

\* C21 (state part): isLoading is true exactly while the API call is pending;
\* the list is the greeting followed by user/bot pairs, the last user message
\* lacking its answer exactly while its send is in progress; every user
\* message is non-blank and trimmed; the input is empty during a send.
C21_State ==
    /\ isLoading <=> sendPc = "await"
    /\ messages[1] = [text |-> Greeting, sender |-> "bot"]
    /\ Alternating
    /\ Len(messages) % 2 = (IF sendPc = "idle" THEN 1 ELSE 0)
    /\ \A i \in 1..Len(messages) :
          messages[i].sender = "user" =>
              /\ messages[i].text # <<>>
              /\ messages[i].text[1] \notin WhiteSpace
              /\ messages[i].text[Len(messages[i].text)] \notin WhiteSpace
    /\ sendPc # "idle" =>
          /\ inputMessage = <<>>
          /\ messages[Len(messages)] = [text |-> userMessage, sender |-> "user"]

\* the input holds only white space
Blank == \A i \in 1..Len(inputMessage) : inputMessage[i] \in WhiteSpace

\* C21 (step part): no step removes or reorders a message; a blank send
\* changes nothing; any other send appends the trimmed input as a user
\* message, clears the input and sets isLoading; the end of the call clears
\* isLoading, leaves the list alone and yields the response text on success
\* and the fallback text otherwise; the continuation appends that text as
\* one bot message; nothing else touches the list.
C21_Step ==
    /\ Len(messages') >= Len(messages)
    /\ SubSeq(messages', 1, Len(messages)) = messages
    /\ (sends' # sends /\ Blank) =>
          UNCHANGED <<isOpen, messages, inputMessage, isLoading, sendPc>>
    /\ (sends' # sends /\ ~Blank) =>
          /\ Len(messages') = Len(messages) + 1
          /\ messages'[Len(messages')].sender = "user"
          /\ messages'[Len(messages')].text = trim(inputMessage)
          /\ inputMessage' = <<>>
          /\ isLoading'
    /\ (sendPc = "await" /\ sendPc' # "await") =>
          /\ ~isLoading'
          /\ messages' = messages
          /\ botResponse' = (IF apiResult'.kind = "ok" THEN apiResult'.response
                             ELSE FallbackText)
    /\ (sendPc = "append" /\ sendPc' # "append") =>
          /\ messages' = messages \o <<[text |-> botResponse, sender |-> "bot"]>>
          /\ ~isLoading'
    /\ messages' # messages => (sends' # sends \/ sendPc = "append")

\* C21: the send protocol of the chat widget, and once the API call has
\* completed the bot message is appended.
C21_SendProtocol ==
    /\ []C21_State
    /\ [][C21_Step]_vars
    /\ (sendPc = "append" ~> (sendPc = "idle" /\ ~isLoading))

\* a blank send, an answered send and a failed send have all been completed
C21_Witness ==
    /\ sendPc = "idle"
    /\ sends = 3
    /\ Len(messages) = 5
    /\ \E i \in 1..Len(messages) : messages[i] = [text |-> FallbackText, sender |-> "bot"]
    /\ \E i \in 1..Len(messages) :
          messages[i].sender = "bot" /\ messages[i].text \in ResponseTexts
    /\ \E i \in 1..Len(messages) : messages[i] = [text |-> <<"h", "i">>, sender |-> "user"]

====
